---- MODULE Spec2Model ----
(***************************************************************************)
(* Scheduling and caching core of the stock-update bot (src/bot.py):       *)
(* the quote cache, the interval aligner, the trading-hours gate, the      *)
(* restartable scheduler loop and the command handlers that drive them.    *)
(*                                                                         *)
(* Time is an integer number of seconds counted from a Monday 00:00:00 in  *)
(* the America/New_York zone (weekday 0 = Monday, as datetime.weekday()).  *)
(***************************************************************************)
EXTENDS Integers, Sequences, FiniteSets, TLC

VARIABLES
    now,             \* the wall clock, read by datetime.now(ET) and time.time()
    file,            \* stocks.json (CONFIG_FILE)
    _cache,          \* _cache: uppercased ticker -> (data, timestamp)
    tasks,           \* the scheduled_update_loop tasks created so far, by creation order
    scheduled_task,  \* the global handle: None or the index of the latest task
    ready,           \* the event loop's FIFO queue of tasks whose step is due
    bot_ready,       \* "no" before READY, "dispatch" while on_ready is due, then "yes"
    sends,           \* history: the channel.send calls of the scheduled updates
    cycle,           \* history: the latest run_scheduled_update call, None before the first
    used,            \* how much of the run's budget of update cycles is used
    lookup,          \* history: the latest get_cached_stock call, None before the first
    arg,             \* pure-function harness: the input of the call under study
    ret,             \* pure-function harness: what the call returned (None before it)
    handlers,        \* the addstock coroutines suspended at their first ctx.send
    acked,           \* history: tickers whose addition was reported, not removed since
    restart,         \* history: the restart by setinterval whose loop has yet to take its first step
    rejected,        \* history: the arguments setinterval has turned down
    callers,         \* the coroutines that look quotes up, each with its position
    running          \* the coroutine that holds the thread, None between steps

botVars == <<file, tasks, scheduled_task, ready, bot_ready, sends, cycle, used>>
cacheVars == <<_cache, lookup>>
probeVars == <<arg, ret>>
cmdVars == <<handlers, acked, restart, rejected>>
coVars == <<callers, running>>
vars == <<now, botVars, cacheVars, probeVars, cmdVars, coVars>>

\* Python's None and a present value: an optional is a sequence of length 0 or 1
Min(S) == CHOOSE x \in S : \A y \in S : x <= y

None == <<>>
Some(v) == <<v>>

----------------------------------------------------------------------------
(* Calendar arithmetic of datetime / timedelta.                            *)

SecondsPerMinute == 60
MinutesPerHour == 60
HoursPerDay == 24
DaysPerWeek == 7
SecondsPerDay == HoursPerDay * MinutesPerHour * SecondsPerMinute

\* now.replace(hour=0, minute=0, second=0, microsecond=0)
Midnight(t) == t - (t % SecondsPerDay)
\* datetime.weekday(): Monday = 0 ... Sunday = 6
Weekday(t) == (t \div SecondsPerDay) % DaysPerWeek
Hour(t) == (t % SecondsPerDay) \div (MinutesPerHour * SecondsPerMinute)
Minute(t) == ((t % SecondsPerDay) \div SecondsPerMinute) % MinutesPerHour
Second(t) == t % SecondsPerMinute
\* the instant of weekday wd (of the first week) at h:m:s
At(wd, h, m, s) ==
    wd * SecondsPerDay + (h * MinutesPerHour + m) * SecondsPerMinute + s

----------------------------------------------------------------------------
(* INTERVAL_PRESETS and the interval aligner.                              *)

\* a table in which the 1h preset stands for 90 minutes
presets_with_90 ==
    [p \in { <<"1", "5", "m">>, <<"3", "0", "m">>, <<"1", "h">>, <<"2", "h">>,
             <<"4", "h">> } |->
        CASE p = <<"1", "5", "m">> -> 15
          [] p = <<"3", "0", "m">> -> 30
          [] p = <<"1", "h">> -> 90
          [] p = <<"2", "h">> -> 120
          [] p = <<"4", "h">> -> 240]

\* preset names are strings of characters, as tickers are (see lower below)
INTERVAL_PRESETS ==
    [p \in { <<"1", "5", "m">>, <<"3", "0", "m">>, <<"1", "h">>, <<"2", "h">>,
             <<"4", "h">> } |->
        CASE p = <<"1", "5", "m">> -> 15
          [] p = <<"3", "0", "m">> -> 30
          [] p = <<"1", "h">> -> 60
          [] p = <<"2", "h">> -> 120
          [] p = <<"4", "h">> -> 240]

PresetMinutes == {INTERVAL_PRESETS[p] : p \in DOMAIN INTERVAL_PRESETS}

\* while next_time.weekday() > 4: next_time += timedelta(days=1)
RECURSIVE SkipWeekend(_)
SkipWeekend(t) == IF Weekday(t) > 4 THEN SkipWeekend(t + SecondsPerDay) ELSE t

\* a candidate that rounds down to the boundary already passed
CandidateRoundedDown(interval_minutes, t) ==
    LET minutes_since_midnight == Hour(t) * MinutesPerHour + Minute(t)
        intervals_passed == minutes_since_midnight \div interval_minutes
    IN  Midnight(t) + intervals_passed * interval_minutes * SecondsPerMinute

\* the candidate before the rollover: midnight + (intervals_passed + 1) * interval
Candidate(interval_minutes, t) ==
    LET minutes_since_midnight == Hour(t) * MinutesPerHour + Minute(t)
        intervals_passed == minutes_since_midnight \div interval_minutes
        next_interval_minutes == (intervals_passed + 1) * interval_minutes
    IN  Midnight(t) + next_interval_minutes * SecondsPerMinute

\* if next_time.hour >= 20: 04:00 of the next day, then past the weekend
Rollover(next_time) ==
    IF Hour(next_time) >= 20
    THEN SkipWeekend(Midnight(next_time) + 4 * MinutesPerHour * SecondsPerMinute
                     + Second(next_time) + SecondsPerDay)
    ELSE next_time

get_next_interval_time(interval_minutes, t) ==
    Rollover(Candidate(interval_minutes, t))

----------------------------------------------------------------------------
(* Ticker symbols are sequences of characters, so that str.upper() is      *)
(* computed character by character.                                        *)

LowerCase == {"a", "b", "c"}

upper_char(c) ==
    CASE c = "a" -> "A"
      [] c = "b" -> "B"
      [] c = "c" -> "C"
      [] OTHER -> c

\* str.upper()
upper(ticker) == [i \in DOMAIN ticker |-> upper_char(ticker[i])]

\* a ticker left as the caller typed it
as_typed(ticker) == ticker

\* ticker = ticker.upper() at the head of get_cached_stock
cache_key(ticker) == upper(ticker)

----------------------------------------------------------------------------
(* The quote cache.                                                        *)

CACHE_TTL == 60

\* what the quote source can answer for the (uppercased) ticker it is asked:
\* None on any failure, else a quote dict; the price stands for all its figures
Prices == {101, 102}
Quote(ticker, price) == [ticker |-> upper(ticker), price |-> price]
FetchOutcomes(ticker) == {None} \cup {Some(Quote(ticker, p)) : p \in Prices}

\* ticker in _cache and time.time() - ts < CACHE_TTL, and the boundary read as <=
is_fresh_inclusive(c, key, t) == key \in DOMAIN c /\ t - c[key].ts <= CACHE_TTL
is_fresh(c, key, t) == key \in DOMAIN c /\ t - c[key].ts < CACHE_TTL

\* _cache[ticker] = (data, time.time())
cache_put(c, key, data, ts) ==
    [k \in DOMAIN c \cup {key} |-> IF k = key THEN [data |-> data, ts |-> ts] ELSE c[k]]

\* a store that skips the `if data:` test
store_always(c, key, fetched, ts) == cache_put(c, key, fetched, ts)

\* if data: _cache[ticker] = (data, time.time())
store_if_data(c, key, fetched, ts) ==
    IF fetched # None THEN cache_put(c, key, fetched, ts) ELSE c

(* get_cached_stock(ticker) on cache c at instant t. `fetched` is what       *)
(* _fetch_stock_data_raw answers if it is asked, and `took` the seconds the  *)
(* blocking request lasts. Yields the new cache, the returned data, the      *)
(* number of requests made and the instant the call returns.                 *)
get_cached_stock(c, ticker, t, fetched, took) ==
    LET key == cache_key(ticker)
    IN  IF is_fresh(c, key, t)
        THEN [cache |-> c, data |-> c[key].data, fetches |-> 0, end |-> t]
        ELSE [cache |-> store_if_data(c, key, fetched, t + took),
              data |-> fetched, fetches |-> 1, end |-> t + took]

----------------------------------------------------------------------------
(* The configuration store: stocks.json.                                   *)

defaults == [channel_id |-> None, stocks |-> << >>, interval_minutes |-> 60]

(* The file is missing, or holds text that is not JSON (kind "text"), or a  *)
(* JSON object (kind "json", with its members in obj), or some other JSON   *)
(* value such as [] or null (kind "json_value").                            *)

\* the exception that leaves load_config(): json.load returns a value that is
\* not a dict, and the merge loop's `key not in config` / `config[key] = value`
\* raises TypeError, which the except clause does not name
load_config_raises(f) == IF f.kind = "json_value" THEN "TypeError" ELSE ""

\* load_config(): the defaults when the file is missing or is not JSON,
\* else the stored object with every missing key filled from the defaults
load_config(f) ==
    IF f.kind = "json"
    THEN [k \in DOMAIN defaults \cup DOMAIN f.obj |->
            IF k \in DOMAIN f.obj THEN f.obj[k] ELSE defaults[k]]
    ELSE defaults

\* save_config(config)
save_config(config) == [kind |-> "json", obj |-> config]

----------------------------------------------------------------------------
(* The trading-hours gate, the batch fetch and the embed.                  *)

\* a gate that is always open
always_open(t) == TRUE

\* the hour test with its upper bound included: 4 <= hour <= 20
is_trading_hours_inclusive(t) ==
    IF Weekday(t) > 4 THEN FALSE ELSE 4 <= Hour(t) /\ Hour(t) <= 20

\* is_trading_hours(): Monday to Friday, 4 <= hour < 20
is_trading_hours(t) == IF Weekday(t) > 4 THEN FALSE ELSE 4 <= Hour(t) /\ Hour(t) < 20

(* fetch_all_stocks(tickers) from index i on: one get_cached_stock call per  *)
(* ticker, in list order. answers[i] and tooks[i] are what the quote source  *)
(* answers for tickers[i] and how long it takes, if it is asked.             *)
RECURSIVE fetch_from(_, _, _, _, _, _)
fetch_from(c, tickers, t, answers, tooks, i) ==
    IF i > Len(tickers)
    THEN [cache |-> c, stocks_data |-> << >>, lookups |-> 0, fetches |-> 0, end |-> t]
    ELSE LET r == get_cached_stock(c, tickers[i], t, answers[i], tooks[i])
             rest == fetch_from(r.cache, tickers, r.end, answers, tooks, i + 1)
         IN  [cache |-> rest.cache,
              stocks_data |-> <<r.data>> \o rest.stocks_data,
              lookups |-> 1 + rest.lookups,
              fetches |-> r.fetches + rest.fetches,
              end |-> rest.end]

fetch_all_stocks(c, tickers, t, answers, tooks) ==
    fetch_from(c, tickers, t, answers, tooks, 1)

\* an embed whose lines come in the reverse of the batch order
embed_reversed(stocks_data) ==
    LET valid == SelectSeq(stocks_data, LAMBDA d : d # None)
        lines == [i \in 1 .. Len(valid) |-> valid[Len(valid) + 1 - i][1].ticker]
    IN  [description |-> IF lines = << >> THEN "No valid stock data." ELSE "lines",
         lines |-> lines]

\* an embed without the fallback description for a batch with no quote
embed_without_fallback(stocks_data) ==
    LET valid == SelectSeq(stocks_data, LAMBDA d : d # None)
    IN  [description |-> "lines",
         lines |-> [i \in 1 .. Len(valid) |-> valid[i][1].ticker]]

\* create_stock_embed(stocks_data): the description of the embed
create_stock_embed(stocks_data) ==
    IF stocks_data = << >>
    THEN [description |-> "No stock data available.", lines |-> << >>]
    ELSE LET valid == SelectSeq(stocks_data, LAMBDA d : d # None)
             lines == [i \in 1 .. Len(valid) |-> valid[i][1].ticker]
         IN  IF lines = << >>
             THEN [description |-> "No valid stock data.", lines |-> << >>]
             ELSE [description |-> "lines", lines |-> lines]

----------------------------------------------------------------------------
(* The asyncio event loop and the scheduler task.                          *)
(*                                                                         *)
(* A loop task is a coroutine suspended at one of its awaits (pc). The     *)
(* event loop keeps the tasks whose next step is due in a FIFO queue       *)
(* (ready); a step runs the coroutine from one await to the next.          *)
(* Task.cancel() marks the task (must_cancel) and queues its step, which   *)
(* then raises CancelledError at the await the task is suspended in.       *)

COOLDOWN == 5

Terminated == {"cancelled", "failed"}

NewTask ==
    [pc |-> "created",            \* created | wait_ready | sleep | send | cooldown | cancelled | failed
     must_cancel |-> FALSE,       \* a CancelledError is to be raised at the next step
     cancel_requested |-> FALSE,  \* history: cancel() was called on this task
     interval_minutes |-> 0,      \* local of scheduled_update_loop
     next_time |-> 0,             \* local of scheduled_update_loop
     wake |-> 0,                  \* deadline of the asyncio.sleep the task is in
     send_result |-> ""]          \* how the awaited channel.send ended: ok | error

InQueue(q, t) == \E i \in 1 .. Len(q) : q[i] = t

Enqueue(q, t) == IF InQueue(q, t) THEN q ELSE Append(q, t)

\* start_scheduled_task() that leaves the previous task running
keep_previous(ts, q, handle) == [tasks |-> ts, ready |-> q]

\* if scheduled_task and not scheduled_task.done(): scheduled_task.cancel()
cancel_previous(ts, q, handle) ==
    IF handle # None /\ ts[handle[1]].pc \notin Terminated
    THEN [tasks |-> [ts EXCEPT ![handle[1]].must_cancel = TRUE,
                               ![handle[1]].cancel_requested = TRUE],
          ready |-> Enqueue(q, handle[1])]
    ELSE [tasks |-> ts, ready |-> q]

\* start_scheduled_task(): cancel-then-create; the new task's first step is queued
start_scheduled_task(ts, q, handle) ==
    LET c == cancel_previous(ts, q, handle)
        id == Len(ts) + 1
    IN  [tasks |-> Append(c.tasks, NewTask),
         ready |-> Append(c.ready, id),
         scheduled_task |-> Some(id)]

\* the task ends by an exception that leaves the coroutine: its frame is gone
ended(task, how) ==
    [NewTask EXCEPT !.pc = how, !.cancel_requested = task.cancel_requested]

\* `except Exception` read as a bare except: it also catches CancelledError
except_anything(error) == TRUE

\* `except Exception as e`: CancelledError derives from BaseException
except_Exception(error) == error # "CancelledError"

\* the top of `while True`: read the interval, align, and sleep until then
loop_top(task, f, t) ==
    LET interval_minutes == load_config(f).interval_minutes
        next_time == get_next_interval_time(interval_minutes, t)
    IN  [task EXCEPT !.pc = "sleep",
                     !.interval_minutes = interval_minutes,
                     !.next_time = next_time,
                     !.wake = next_time]

\* the loop body with the try/except removed: any error ends the task
after_update_uncaught(task, t, error) ==
    IF error = ""
    THEN [task EXCEPT !.pc = "cooldown", !.wake = t + COOLDOWN,
                      !.must_cancel = FALSE, !.send_result = ""]
    ELSE ended(task, IF error = "CancelledError" THEN "cancelled" ELSE "failed")

\* after run_scheduled_update returned or raised: except, then asyncio.sleep(5)
after_update(task, t, error) ==
    IF error = "" \/ except_Exception(error)
    THEN [task EXCEPT !.pc = "cooldown", !.wake = t + COOLDOWN,
                      !.must_cancel = FALSE, !.send_result = ""]
    ELSE ended(task, "cancelled")

\* if not channel_id and not stocks: a gate that needs both to be missing
skip_if_both_missing(channel_id, stocks) == channel_id = None /\ stocks = << >>

\* if not channel_id or not stocks: return
skip_for_config(channel_id, stocks) == channel_id = None \/ stocks = << >>

(* run_scheduled_update() up to its return or to the await of channel.send.  *)
(* resolvable: whether bot.get_channel finds the channel; answers and tooks  *)
(* as in fetch_all_stocks. `channel` tells how bot.get_channel ended, if the *)
(* call was reached: unasked | missing | found.                               *)
run_scheduled_update(f, c, t, resolvable, answers, tooks) ==
    LET config == load_config(f)
        channel_id == config.channel_id
        stocks == config.stocks
        quiet == [config |-> config, trading |-> is_trading_hours(t),
                  channel |-> "unasked", stocks_data |-> << >>,
                  cache |-> c, end |-> t, lookups |-> 0, fetches |-> 0,
                  sent |-> FALSE, embed |-> create_stock_embed(<< >>)]
    IN  IF skip_for_config(channel_id, stocks) THEN quiet
        ELSE IF ~is_trading_hours(t) THEN quiet
        ELSE IF ~resolvable THEN [quiet EXCEPT !.channel = "missing"]
        ELSE LET r == fetch_all_stocks(c, stocks, t, answers, tooks)
             IN  [config |-> config, trading |-> TRUE,
                  channel |-> "found", stocks_data |-> r.stocks_data,
                  cache |-> r.cache, end |-> r.end,
                  lookups |-> r.lookups, fetches |-> r.fetches,
                  sent |-> TRUE, embed |-> create_stock_embed(r.stocks_data)]

\* what the quote source may answer, and how long it may take, for each ticker
Answers(tickers) ==
    { a \in [1 .. Len(tickers) -> {None} \cup {Some(Quote(tickers[i], Min(Prices))) : i \in 1 .. Len(tickers)}] :
        \A i \in 1 .. Len(tickers) : a[i] \in FetchOutcomes(tickers[i]) }
BlockingSeconds == {0}
Tooks(tickers) == [1 .. Len(tickers) -> BlockingSeconds]

----------------------------------------------------------------------------
(* The bot: the event loop, the scheduler tasks and the command handlers.  *)

MaxTasks == 3
MaxCycles == 2
Lateness == {0, 900}
ChannelIds == {42}

TickerAB == <<"A", "B">>
TickerC == <<"C">>

FridayEvening == At(4, 19, 44, 58)
\* the instants at which the machine may be suspended, for a Lateness
SuspendedAt == { At(4, 19, 45, 0) }
SaturdayMorning == At(5, 10, 0, 0)

InitialFiles ==
    { [kind |-> "missing"],
      [kind |-> "json", obj |-> [stocks |-> <<TickerAB>>]],
      [kind |-> "json", obj |-> [channel_id |-> Some(42), stocks |-> << >>,
                                 interval_minutes |-> 15]],
      [kind |-> "json", obj |-> [channel_id |-> Some(42), stocks |-> <<TickerAB, TickerC>>,
                                 interval_minutes |-> 15]] }

\* the bot starts on Friday evening with any of the files, or on Saturday
\* morning with a complete configuration
InitialStates ==
    { <<FridayEvening, f>> : f \in InitialFiles }
    \cup { <<SaturdayMorning, f>> : f \in { g \in InitialFiles :
                g.kind = "json" /\ DOMAIN g.obj = DOMAIN defaults /\ g.obj.stocks # << >> } }

BotIdle ==
    /\ file = [kind |-> "missing"]
    /\ tasks = << >>
    /\ scheduled_task = None
    /\ ready = << >>
    /\ bot_ready = "no"
    /\ sends = << >>
    /\ cycle = None
    /\ used = [cycles |-> 0]
    /\ handlers = << >>
    /\ acked = {}
    /\ restart = None
    /\ rejected = {}
    /\ callers = << >>
    /\ running = None

Init ==
    /\ \E i \in InitialStates : now = i[1] /\ file = i[2]
    /\ tasks = << >>
    /\ scheduled_task = None
    /\ ready = << >>
    /\ bot_ready = "no"
    /\ sends = << >>
    /\ cycle = None
    /\ used = [cycles |-> 0]
    /\ _cache = << >>
    /\ lookup = None
    /\ arg = [fn |-> "bot"]
    /\ ret = None
    /\ handlers = << >>
    /\ acked = {}
    /\ restart = None
    /\ rejected = {}
    /\ callers = << >>
    /\ running = None

\* the gateway completed READY: bot.wait_until_ready() returns for who waits
BotReady ==
    /\ bot_ready = "no"
    /\ bot_ready' = "dispatch"
    /\ ready' = ready \o SelectSeq([i \in 1 .. Len(tasks) |-> i],
                                   LAMBDA i : tasks[i].pc = "wait_ready" /\ ~InQueue(ready, i))
    /\ UNCHANGED <<now, file, tasks, scheduled_task, sends, cycle, used, cacheVars, probeVars, cmdVars, coVars>>

\* on_ready()
on_ready ==
    /\ bot_ready = "dispatch"
    /\ bot_ready' = "yes"
    /\ Len(tasks) < MaxTasks
    /\ LET s == start_scheduled_task(tasks, ready, scheduled_task)
       IN  /\ tasks' = s.tasks
           /\ ready' = s.ready
           /\ scheduled_task' = s.scheduled_task
    /\ UNCHANGED <<now, file, sends, cycle, used, cacheVars, probeVars, cmdVars, coVars>>

\* str.lower() on the characters preset names are made of
lower_char(c) ==
    CASE c = "M" -> "m"
      [] c = "H" -> "h"
      [] OTHER -> c
lower(preset) == [i \in DOMAIN preset |-> lower_char(preset[i])]

\* what users type after !setinterval: nothing, a preset in capitals, and a
\* duration that is not a preset
SetIntervalArgs == { None, Some(<<"1", "H">>), Some(<<"5", "m">>) }
\* the one change of interval made while the scheduler's cycles are followed
RestartArgs == { Some(<<"1", "H">>) }

\* !setinterval [preset]
setinterval(preset) ==
    IF preset = None \/ lower(preset[1]) \notin DOMAIN INTERVAL_PRESETS
    THEN /\ rejected' = rejected \cup {preset}
         /\ UNCHANGED <<now, botVars, cacheVars, probeVars, handlers, acked, restart, coVars>>
    ELSE /\ Len(tasks) < MaxTasks
         /\ LET minutes == INTERVAL_PRESETS[lower(preset[1])]
                config == [load_config(file) EXCEPT !.interval_minutes = minutes]
                s == start_scheduled_task(tasks, ready, scheduled_task)
            IN  /\ file' = save_config(config)
                /\ tasks' = s.tasks
                /\ ready' = s.ready
                /\ scheduled_task' = s.scheduled_task
                /\ restart' = Some([task |-> s.scheduled_task[1], preset |-> preset[1],
                                    minutes |-> minutes])
         /\ UNCHANGED <<now, bot_ready, sends, cycle, used, cacheVars, probeVars,
                        handlers, acked, rejected, coVars>>

\* !setchannel
setchannel(id) ==
    /\ file' = save_config([load_config(file) EXCEPT !.channel_id = Some(id)])
    /\ UNCHANGED <<now, tasks, scheduled_task, ready, bot_ready, sends, cycle, used,
                   cacheVars, probeVars, cmdVars, coVars>>

\* a timer of asyncio.sleep is due: the sleeping task's step is queued
TimerFire(t) ==
    /\ tasks[t].pc \in {"sleep", "cooldown"}
    /\ tasks[t].wake <= now
    /\ ~InQueue(ready, t)
    /\ tasks[t].pc = "sleep" => used.cycles < MaxCycles
    /\ ready' = Append(ready, t)
    /\ UNCHANGED <<now, file, tasks, scheduled_task, bot_ready, sends, cycle, used,
                   cacheVars, probeVars, cmdVars, coVars>>

\* the request of channel.send ends, with a response or with an HTTP error
SendComplete(t, result) ==
    /\ tasks[t].pc = "send"
    /\ tasks[t].send_result = ""
    /\ ~InQueue(ready, t)
    /\ tasks' = [tasks EXCEPT ![t].send_result = result]
    /\ ready' = Append(ready, t)
    /\ UNCHANGED <<now, file, scheduled_task, bot_ready, sends, cycle, used,
                   cacheVars, probeVars, cmdVars, coVars>>

Due(t) == tasks[t].pc \in {"sleep", "cooldown"} /\ tasks[t].wake <= now /\ ~InQueue(ready, t)
Idle == ready = << >> /\ \A t \in 1 .. Len(tasks) : ~Due(t)
Deadlines == { tasks[t].wake : t \in {u \in 1 .. Len(tasks) : tasks[u].pc \in {"sleep", "cooldown"}} }

\* the event loop sleeps until its earliest timer, and serves it late when
\* the machine is suspended at that instant
Advance(late) ==
    /\ Idle
    /\ Deadlines # {}
    /\ used.cycles < MaxCycles
    /\ late > 0 => Min(Deadlines) \in SuspendedAt
    /\ now' = Min(Deadlines) + late
    /\ UNCHANGED <<botVars, cacheVars, probeVars, cmdVars, coVars>>

Running(t) == ready # << >> /\ Head(ready) = t

\* the restart on record is settled once its task took its first step or ended
settled(r, t) == IF r # None /\ r[1].task = t THEN None ELSE r

\* a step of a task on which cancel() was called: CancelledError at its await
StepCancelled(t) ==
    /\ Running(t)
    /\ tasks[t].must_cancel
    /\ ready' = Tail(ready)
    /\ tasks' = [tasks EXCEPT ![t] =
                    IF tasks[t].pc = "send"
                    THEN after_update(tasks[t], now, "CancelledError")
                    ELSE ended(tasks[t], "cancelled")]
    /\ restart' = settled(restart, t)
    /\ UNCHANGED <<now, file, scheduled_task, bot_ready, sends, cycle, used,
                   cacheVars, probeVars, handlers, acked, rejected, coVars>>

\* the first step: await bot.wait_until_ready(), then the top of the loop
StepStart(t) ==
    /\ Running(t)
    /\ ~tasks[t].must_cancel
    /\ tasks[t].pc \in {"created", "wait_ready"}
    /\ ready' = Tail(ready)
    /\ tasks' = [tasks EXCEPT ![t] =
                    IF bot_ready # "no" THEN loop_top(tasks[t], file, now)
                    ELSE [tasks[t] EXCEPT !.pc = "wait_ready"]]
    /\ restart' = IF bot_ready # "no" THEN settled(restart, t) ELSE restart
    /\ UNCHANGED <<now, file, scheduled_task, bot_ready, sends, cycle, used,
                   cacheVars, probeVars, handlers, acked, rejected, coVars>>

\* the wake sleep is over: run_scheduled_update() to its return or to the send
StepUpdate(t) ==
    /\ Running(t)
    /\ ~tasks[t].must_cancel
    /\ tasks[t].pc = "sleep"
    /\ ready' = Tail(ready)
    /\ \E resolvable \in BOOLEAN :
         \E answers \in Answers(load_config(file).stocks),
            tooks \in Tooks(load_config(file).stocks) :
           LET r == run_scheduled_update(file, _cache, now, resolvable, answers, tooks)
           IN  /\ _cache' = r.cache
               /\ now' = r.end
               /\ cycle' = Some([task |-> t, at |-> now, wake |-> tasks[t].next_time,
                                 channel_id |-> r.config.channel_id,
                                 stocks |-> r.config.stocks,
                                 trading |-> r.trading, channel |-> r.channel,
                                 stocks_data |-> r.stocks_data,
                                 lookups |-> r.lookups,
                                 fetches |-> r.fetches, sent |-> r.sent,
                                 embed |-> r.embed, raised |-> FALSE])
               /\ IF r.sent
                  THEN /\ sends' = Append(sends, [task |-> t, wake |-> tasks[t].next_time])
                       /\ tasks' = [tasks EXCEPT ![t].pc = "send"]
                  ELSE /\ sends' = sends
                       /\ tasks' = [tasks EXCEPT ![t] = after_update(tasks[t], r.end, "")]
    /\ used' = [used EXCEPT !.cycles = @ + 1]
    /\ UNCHANGED <<file, scheduled_task, bot_ready, lookup, probeVars, cmdVars, coVars>>

\* channel.send returned or raised: the except clause, then asyncio.sleep(5)
StepSendReturned(t) ==
    /\ Running(t)
    /\ ~tasks[t].must_cancel
    /\ tasks[t].pc = "send"
    /\ ready' = Tail(ready)
    /\ LET error == IF tasks[t].send_result = "error" THEN "HTTPException" ELSE ""
       IN  /\ tasks' = [tasks EXCEPT ![t] = after_update(tasks[t], now, error)]
           /\ cycle' = IF error # "" /\ cycle # None /\ cycle[1].task = t
                       THEN Some([cycle[1] EXCEPT !.raised = TRUE])
                       ELSE cycle
    /\ UNCHANGED <<now, file, scheduled_task, bot_ready, sends, used,
                   cacheVars, probeVars, cmdVars, coVars>>

\* the cooldown is over: back to the top of the loop
StepCooldownOver(t) ==
    /\ Running(t)
    /\ ~tasks[t].must_cancel
    /\ tasks[t].pc = "cooldown"
    /\ ready' = Tail(ready)
    /\ tasks' = [tasks EXCEPT ![t] = loop_top(tasks[t], file, now)]
    /\ UNCHANGED <<now, file, scheduled_task, bot_ready, sends, cycle, used,
                   cacheVars, probeVars, cmdVars, coVars>>

Next ==
    \/ BotReady
    \/ on_ready
    \/ \E preset \in RestartArgs : setinterval(preset)
    \/ \E id \in ChannelIds : setchannel(id)
    \/ \E late \in Lateness : Advance(late)
    \/ \E t \in 1 .. Len(tasks) : TimerFire(t)
    \/ \E t \in 1 .. Len(tasks), result \in {"ok", "error"} : SendComplete(t, result)
    \/ \E t \in 1 .. Len(tasks) : StepCancelled(t)
    \/ \E t \in 1 .. Len(tasks) : StepStart(t)
    \/ \E t \in 1 .. Len(tasks) : StepUpdate(t)
    \/ \E t \in 1 .. Len(tasks) : StepSendReturned(t)
    \/ \E t \in 1 .. Len(tasks) : StepCooldownOver(t)

Spec == Init /\ [][Next]_vars

TaskIds == 1 .. Len(tasks)

\* the loop instances that have started and have not ended
LiveLoops == { t \in TaskIds : tasks[t].pc \in {"wait_ready", "sleep", "send", "cooldown"} }

(* C1: after any sequence of start_scheduled_task calls at most one loop     *)
(* instance is live: a superseded instance has ended before the new one      *)
(* takes its first step, the only instance not asked to cancel is the one    *)
(* scheduled_task holds, and no aligned boundary is posted by two instances. *)
C1_OneLoopInstance ==
    /\ Cardinality(LiveLoops) <= 1
    /\ \A t \in TaskIds :
          (tasks[t].pc \notin Terminated /\ ~tasks[t].cancel_requested)
              => scheduled_task = Some(t)
    /\ \A i, j \in 1 .. Len(sends) :
          sends[i].wake = sends[j].wake => sends[i].task = sends[j].task

\* a loop that posted was superseded and ended, and its successor posted the next boundary
C1_Witness ==
    /\ Len(sends) = 2
    /\ sends[1].task # sends[2].task
    /\ tasks[sends[1].task].pc = "cancelled"
    /\ tasks[sends[2].task].pc = "send"
    /\ LiveLoops = {sends[2].task}

(* C2: cancellation takes effect only at cycle boundaries: a loop instance   *)
(* suspended in the channel send of its cycle is never ended there by a      *)
(* restart.                                                                   *)
C2_NeverAbandonedMidSend ==
    [][\A t \in TaskIds : tasks[t].pc = "send" => tasks'[t].pc # "cancelled"]_vars

(* C3: once start_scheduled_task has asked a loop instance to cancel, that   *)
(* instance starts no further update cycle and no further channel send.      *)
C3_NoActionAfterCancel ==
    [][\A t \in TaskIds :
          tasks[t].cancel_requested =>
              /\ used'.cycles > used.cycles => cycle'[1].task # t
              /\ Len(sends') > Len(sends) => sends'[Len(sends')].task # t]_vars

\* a loop that had posted was cancelled and ended; a later instance posted after it
C3_Witness ==
    /\ Len(sends) = 2
    /\ sends[1].task # sends[2].task
    /\ tasks[sends[1].task].cancel_requested
    /\ tasks[sends[1].task].pc = "cancelled"
    /\ cycle # None /\ cycle[1].task = sends[2].task

C10_NoConfigNoWork ==
    (cycle # None /\ (cycle[1].channel_id = None \/ cycle[1].stocks = << >>)) =>
        /\ cycle[1].lookups = 0
        /\ cycle[1].fetches = 0
        /\ ~cycle[1].sent
        /\ ~cycle[1].raised
        /\ \A i \in 1 .. Len(sends) :
              ~(sends[i].task = cycle[1].task /\ sends[i].wake = cycle[1].wake)
        /\ tasks[cycle[1].task].pc # "failed"

\* a cycle in trading hours with a watch-list and no channel: it went to the cooldown
C10_Witness ==
    /\ cycle # None
    /\ cycle[1].channel_id = None
    /\ cycle[1].stocks # << >>
    /\ cycle[1].trading
    /\ ~cycle[1].sent
    /\ tasks[cycle[1].task].pc = "cooldown"

\* the instant t lies outside extended trading hours, from the calendar alone
OutsideTradingHours(t) ==
    LET day == (t \div 86400) % 7
        second_of_day == t % 86400
    IN  day \in {5, 6} \/ second_of_day < 4 * 3600 \/ second_of_day >= 20 * 3600

\* the channel.send calls made for the cycle c
SendsOf(c) == { i \in 1 .. Len(sends) : sends[i] = [task |-> c.task, wake |-> c.wake] }

\* the cycle c got past the configuration gate and found its channel
Deliverable(c) ==
    c.channel_id # None /\ c.stocks # << >> /\ c.channel = "found"

(* C11: a scheduled cycle that runs on a Saturday or Sunday, or on a weekday *)
(* before 04:00 or from 20:00 on, makes no cache lookup, no request and no   *)
(* send, whatever the configuration; the gate looks at the instant the cycle *)
(* runs, so a wake time outside the window is skipped.                       *)
C11_ClosedMarketNoWork ==
    (cycle # None /\ OutsideTradingHours(cycle[1].at)) =>
        /\ ~cycle[1].sent
        /\ cycle[1].lookups = 0
        /\ cycle[1].fetches = 0
        /\ SendsOf(cycle[1]) = {}

\* a cycle woke on time on a Saturday, with a channel and a watch-list, and did nothing
C11_Witness ==
    /\ cycle # None
    /\ (cycle[1].at \div 86400) % 7 = 5
    /\ cycle[1].at = cycle[1].wake
    /\ cycle[1].channel_id # None /\ cycle[1].stocks # << >>
    /\ ~cycle[1].sent

\* lines holds symbols of the watch-list, each once, in the watch-list's order
InWatchListOrder(lines, stocks) ==
    \E f \in [1 .. Len(lines) -> 1 .. Len(stocks)] :
        /\ \A i \in 1 .. Len(lines) : lines[i] = upper(stocks[f[i]])
        /\ \A i, j \in 1 .. Len(lines) : i < j => f[i] < f[j]

(* C12: a cycle with a configured channel that resolves, a non-empty         *)
(* watch-list and a wake instant inside trading hours invokes exactly one    *)
(* send, whose payload lists the quotes in the order of the watch-list, all  *)
(* of them when every symbol has a quote.                                    *)
C12_OneOrderedSend ==
    (cycle # None /\ Deliverable(cycle[1]) /\ ~OutsideTradingHours(cycle[1].at)) =>
        /\ cycle[1].sent
        /\ Cardinality(SendsOf(cycle[1])) = 1
        /\ InWatchListOrder(cycle[1].embed.lines, cycle[1].stocks)
        /\ (\A i \in 1 .. Len(cycle[1].stocks_data) : cycle[1].stocks_data[i] # None)
              => Len(cycle[1].embed.lines) = Len(cycle[1].stocks)

\* a cycle posted a two-entry payload for the two-symbol watch-list
C12_Witness ==
    /\ cycle # None /\ Deliverable(cycle[1])
    /\ cycle[1].stocks = <<TickerAB, TickerC>>
    /\ cycle[1].embed.lines = <<TickerAB, TickerC>>
    /\ Cardinality(SendsOf(cycle[1])) = 1

(* C16: when every symbol of the watch-list comes back absent in a cycle     *)
(* that passed all the gates, the cycle still invokes send exactly once,     *)
(* with the empty-state payload.                                             *)
C16_AllAbsentStillPosts ==
    (/\ cycle # None /\ Deliverable(cycle[1])
     /\ \A i \in 1 .. Len(cycle[1].stocks_data) : cycle[1].stocks_data[i] = None) =>
        /\ cycle[1].sent
        /\ Cardinality(SendsOf(cycle[1])) = 1
        /\ cycle[1].embed.description = "No valid stock data."
        /\ cycle[1].embed.lines = << >>

\* both symbols were looked up, both requests failed, and the cycle posted
C16_Witness ==
    /\ cycle # None /\ Deliverable(cycle[1])
    /\ cycle[1].stocks_data = <<None, None>>
    /\ cycle[1].fetches = 2
    /\ Cardinality(SendsOf(cycle[1])) = 1

----------------------------------------------------------------------------
(* The cache on its own: lookups of symbols in either case, the quote       *)
(* source answering or failing, and time passing between the calls.         *)

CacheTickers == { <<"a", "b">>, <<"A", "B">>, <<"A", "b">>, <<"c">> }
Gaps == {1, 59, 60}
FetchSeconds == {0, 1}
MaxLookups == 3

InitCache ==
    /\ BotIdle
    /\ now = 0
    /\ _cache = << >>
    /\ lookup = None
    /\ arg = [fn |-> "get_cached_stock", calls |-> 0]
    /\ ret = None

Lookup(ticker, fetched, took) ==
    /\ arg.calls < MaxLookups
    /\ LET r == get_cached_stock(_cache, ticker, now, fetched, took)
       IN  /\ _cache' = r.cache
           /\ now' = r.end
           /\ ret' = r.data
           /\ lookup' = Some([ticker |-> ticker, at |-> now, end |-> r.end,
                              before |-> _cache, fetched |-> fetched,
                              fetches |-> r.fetches, data |-> r.data])
    /\ arg' = [arg EXCEPT !.calls = @ + 1]
    /\ UNCHANGED <<botVars, cmdVars, coVars>>

\* time passes between two calls
Elapse(d) ==
    /\ lookup # None
    /\ arg.calls < MaxLookups
    /\ now = lookup[1].end
    /\ now' = now + d
    /\ UNCHANGED <<botVars, cacheVars, probeVars, cmdVars, coVars>>

NextCache ==
    \/ \E ticker \in CacheTickers, took \in FetchSeconds :
          \E fetched \in FetchOutcomes(ticker) : Lookup(ticker, fetched, took)
    \/ \E d \in Gaps : Elapse(d)

SpecCache == InitCache /\ [][NextCache]_vars

\* the latest call, and the entry the cache held for its symbol when it was made
Looked == lookup # None
LookedKey == upper(lookup[1].ticker)
HadEntry == Looked /\ LookedKey \in DOMAIN lookup[1].before
EntryAge == lookup[1].at - lookup[1].before[LookedKey].ts

(* C6: a get_cached_stock call made less than CACHE_TTL (60) seconds after  *)
(* the timestamp of the entry stored for its symbol returns the cached quote *)
(* and makes no request; a call made 60 or more seconds after that timestamp *)
(* (or with no entry stored) makes one request.                              *)
C6_TtlDecidesFetch ==
    Looked =>
        /\ (HadEntry /\ EntryAge < 60) =>
              /\ lookup[1].fetches = 0
              /\ lookup[1].data = lookup[1].before[LookedKey].data
        /\ (HadEntry /\ EntryAge >= 60) => lookup[1].fetches = 1
        /\ ~HadEntry => lookup[1].fetches = 1

\* a call 59 seconds after the entry was stored: served from the cache
C6_Witness ==
    /\ HadEntry
    /\ EntryAge = 59
    /\ lookup[1].fetches = 0
    /\ lookup[1].data # None

(* C7: a request that yields None leaves the cache as it was: no entry is   *)
(* created for the symbol, an entry already stored keeps its quote and its   *)
(* timestamp, and get_cached_stock returns None.                             *)
C7_FailedFetchKeepsCache ==
    (Looked /\ lookup[1].fetches = 1 /\ lookup[1].fetched = None) =>
        /\ _cache = lookup[1].before
        /\ lookup[1].data = None

\* a failed refresh of an entry that had expired: the old entry is still stored
C7_Witness ==
    /\ HadEntry
    /\ lookup[1].fetches = 1
    /\ lookup[1].fetched = None
    /\ LookedKey \in DOMAIN _cache
    /\ _cache[LookedKey] = lookup[1].before[LookedKey]

\* two symbols that differ at most in the case of their letters
CasePairs == { <<"a", "A">>, <<"b", "B">>, <<"c", "C">> }
SameIgnoringCase(s, t) ==
    /\ Len(s) = Len(t)
    /\ \A i \in 1 .. Len(s) :
          s[i] = t[i] \/ <<s[i], t[i]>> \in CasePairs \/ <<t[i], s[i]>> \in CasePairs
IsUpperCase(s) == \A i \in 1 .. Len(s) : s[i] \notin LowerCase

(* C8: every key stored in the cache is uppercase, symbols that differ only *)
(* in letter case share one entry, and a lookup within the TTL of an entry   *)
(* stored under any casing of its symbol is served from it without a request;*)
(* a fetched quote is stored under the uppercased symbol.                    *)
C8_KeyedByUppercase ==
    /\ \A k \in DOMAIN _cache : IsUpperCase(k)
    /\ \A j, k \in DOMAIN _cache : SameIgnoringCase(j, k) => j = k
    /\ Looked =>
          /\ \A k \in DOMAIN lookup[1].before :
                (/\ SameIgnoringCase(k, lookup[1].ticker)
                 /\ lookup[1].at - lookup[1].before[k].ts < 60)
                => /\ lookup[1].fetches = 0
                   /\ lookup[1].data = lookup[1].before[k].data
          /\ (lookup[1].fetches = 1 /\ lookup[1].fetched # None) =>
                \E k \in DOMAIN _cache :
                    /\ SameIgnoringCase(k, lookup[1].ticker)
                    /\ _cache[k] = [data |-> lookup[1].fetched, ts |-> lookup[1].end]

\* "ab" looked up while "AB" is stored and fresh: no request is made
C8_Witness ==
    /\ Looked
    /\ lookup[1].ticker = <<"a", "b">>
    /\ <<"A", "B">> \in DOMAIN lookup[1].before
    /\ lookup[1].fetches = 0
    /\ lookup[1].data = lookup[1].before[<<"A", "B">>].data

----------------------------------------------------------------------------
(* The aligner as a pure function: every minute of a week, at the first    *)
(* and the last second of the minute, for every preset.                    *)

SecondsProbed == {0, 59}

AlignerInputs ==
    { [fn |-> "get_next_interval_time", interval |-> iv, at |-> (d * HoursPerDay * MinutesPerHour + m) * SecondsPerMinute + s] :
        iv \in PresetMinutes,
        d \in 0 .. (DaysPerWeek - 1),
        m \in 0 .. (HoursPerDay * MinutesPerHour - 1),
        s \in SecondsProbed }

InitAligner ==
    /\ BotIdle
    /\ arg \in AlignerInputs
    /\ now = arg.at
    /\ _cache = << >>
    /\ lookup = None
    /\ ret = None

CallAligner ==
    /\ ret = None
    /\ ret' = Some(get_next_interval_time(arg.interval, now))
    /\ UNCHANGED <<now, botVars, cacheVars, arg, cmdVars, coVars>>

NextAligner == CallAligner

SpecAligner == InitAligner /\ [][NextAligner]_vars

\* the call under study has returned
AlignerReturned == arg.fn = "get_next_interval_time" /\ ret # None

\* the candidate of the call under study passed 20:00, so the result was rolled over
RolledOver ==
    LET elapsed == (arg.at % SecondsPerDay) \div SecondsPerMinute
        k == (elapsed \div arg.interval) + 1
    IN  k * arg.interval >= 20 * MinutesPerHour
        /\ k * arg.interval < HoursPerDay * MinutesPerHour

(* C4: for every preset interval and every instant now, the aligner returns  *)
(* an instant strictly later than now, and either its offset from the        *)
(* midnight of now's day is a whole multiple of the interval, or it is 04:00 *)
(* on a weekday and was reached through the 20:00 rollover.                  *)
C4_LaterAndAligned ==
    AlignerReturned =>
        /\ ret[1] > arg.at
        /\ \/ /\ (ret[1] - Midnight(arg.at)) % SecondsPerMinute = 0
              /\ ((ret[1] - Midnight(arg.at)) \div SecondsPerMinute) % arg.interval = 0
           \/ /\ RolledOver
              /\ Hour(ret[1]) = 4 /\ Minute(ret[1]) = 0 /\ Second(ret[1]) = 0
              /\ Weekday(ret[1]) <= 4

\* Friday 19:50 with the 15-minute preset: rolled over the weekend to Monday 04:00
C4_Witness ==
    /\ AlignerReturned
    /\ arg.interval = 15 /\ arg.at = At(4, 19, 50, 59)
    /\ RolledOver
    /\ ret = Some(At(DaysPerWeek, 4, 0, 0))

(* C5: for every preset interval and every instant now, the instant the     *)
(* aligner returns never falls on a Saturday or a Sunday.                    *)
C5_NeverWeekend == AlignerReturned => Weekday(ret[1]) <= 4

----------------------------------------------------------------------------
(* The trading-hours gate as a pure function of the clock: every minute of *)
(* a week, at the first and the last second of the minute.                 *)

GateInputs ==
    { [fn |-> "is_trading_hours", at |-> (d * HoursPerDay * MinutesPerHour + m) * SecondsPerMinute + s] :
        d \in 0 .. (DaysPerWeek - 1),
        m \in 0 .. (HoursPerDay * MinutesPerHour - 1),
        s \in SecondsProbed }

InitGate ==
    /\ BotIdle
    /\ arg \in GateInputs
    /\ now = arg.at
    /\ _cache = << >>
    /\ lookup = None
    /\ ret = None

CallGate ==
    /\ ret = None
    /\ ret' = Some(is_trading_hours(now))
    /\ UNCHANGED <<now, botVars, cacheVars, arg, cmdVars, coVars>>

NextGate == CallGate

SpecGate == InitGate /\ [][NextGate]_vars

GateReturned == arg.fn = "is_trading_hours" /\ ret # None

\* the instant t lies from 04:00:00 to 19:59:59 of a day from Monday to Friday
InsideWindow(t) ==
    \E d \in 0 .. 4 : d * 86400 + 4 * 3600 <= t /\ t < d * 86400 + 20 * 3600

(* C13: is_trading_hours is true exactly when the weekday is Monday to       *)
(* Friday and the local hour is in [4, 20): false at every instant of a      *)
(* Saturday or Sunday, true at 04:00:00 of a weekday, false at 20:00:00 of a *)
(* weekday.                                                                   *)
C13_GateIsWeekdayWindow ==
    GateReturned =>
        /\ ret[1] = InsideWindow(arg.at)
        /\ arg.at >= 5 * 86400 => ret[1] = FALSE
        /\ (\E d \in 0 .. 4 : arg.at = d * 86400 + 4 * 3600) => ret[1] = TRUE
        /\ (\E d \in 0 .. 4 : arg.at = d * 86400 + 20 * 3600) => ret[1] = FALSE

\* Wednesday 04:00:00: the gate is open
C13_Witness ==
    /\ GateReturned
    /\ arg.at = At(2, 4, 0, 0)
    /\ ret = Some(TRUE)

----------------------------------------------------------------------------
(* load_config as a function of what stocks.json holds.                    *)

\* a JSON object with any of the three members present
ConfigObjects ==
    { [k \in keys |-> full[k]] :
        keys \in SUBSET DOMAIN defaults,
        full \in [channel_id : {None, Some(42)},
                  stocks : {<< >>, <<TickerAB>>, <<TickerAB, TickerC>>},
                  interval_minutes : PresetMinutes] }

ConfigFiles ==
    { [kind |-> "missing"], [kind |-> "text"], [kind |-> "json_value"] }
    \cup { [kind |-> "json", obj |-> o] : o \in ConfigObjects }

InitConfig ==
    /\ BotIdle
    /\ now = 0
    /\ _cache = << >>
    /\ lookup = None
    /\ arg \in { [fn |-> "load_config", file |-> f] : f \in ConfigFiles }
    /\ ret = None

CallLoadConfig ==
    /\ ret = None
    /\ ret' = Some(IF load_config_raises(arg.file) # ""
                   THEN [raised |-> load_config_raises(arg.file)]
                   ELSE [raised |-> "", config |-> load_config(arg.file)])
    /\ UNCHANGED <<now, botVars, cacheVars, arg, cmdVars, coVars>>

NextConfig == CallLoadConfig

SpecConfig == InitConfig /\ [][NextConfig]_vars

LoadReturned == arg.fn = "load_config" /\ ret # None

(* C18: load_config never raises: a missing or unparsable configuration      *)
(* record yields the defaults (channel_id absent, stocks empty,               *)
(* interval_minutes 60), and a record that lacks some of the fields is        *)
(* returned with each missing field at its default and the present fields    *)
(* kept.                                                                      *)
C18_LoadNeverRaises ==
    LoadReturned =>
        /\ ret[1].raised = ""
        /\ arg.file.kind # "json" =>
              /\ ret[1].config.channel_id = None
              /\ ret[1].config.stocks = << >>
              /\ ret[1].config.interval_minutes = 60
        /\ arg.file.kind = "json" =>
              /\ \A k \in DOMAIN arg.file.obj : ret[1].config[k] = arg.file.obj[k]
              /\ "channel_id" \notin DOMAIN arg.file.obj => ret[1].config.channel_id = None
              /\ "stocks" \notin DOMAIN arg.file.obj => ret[1].config.stocks = << >>
              /\ "interval_minutes" \notin DOMAIN arg.file.obj
                    => ret[1].config.interval_minutes = 60

----------------------------------------------------------------------------
(* The watch-list commands, and the command handlers running concurrently  *)
(* with each other and with the restart of the scheduler loop.             *)
(*                                                                         *)
(* removestock, setchannel and setinterval load, change and save the       *)
(* configuration before their first await: they are single steps. addstock *)
(* loads the configuration, awaits ctx.send("Checking ..."), and only then *)
(* looks the ticker up and saves the configuration it had loaded. Its      *)
(* wake-up is queued behind the steps already due when the send returns;   *)
(* in the queue the handler h stands as the number -h.                     *)

MaxHandlers == 2
TickerB == <<"B">>
\* what users type after !addstock and !removestock
StockArgs == { None, Some(<<"a", "b">>), Some(TickerC), Some(TickerB) }

Wakeup(h) == 0 - h

\* ticker in config["stocks"]
listed(stocks, ticker) == \E i \in 1 .. Len(stocks) : stocks[i] = ticker

\* list.remove(ticker): the first occurrence goes, the rest keep their order
remove(stocks, ticker) ==
    LET first == Min({ i \in 1 .. Len(stocks) : stocks[i] = ticker })
    IN  [i \in 1 .. (Len(stocks) - 1) |-> IF i < first THEN stocks[i] ELSE stocks[i + 1]]

\* config["stocks"].append(ticker), on the configuration addstock loaded
append_to_loaded(config, ticker) ==
    [config EXCEPT !.stocks = Append(@, ticker)]

\* !addstock [ticker], up to its first await
addstock(ticker) ==
    /\ ticker # None
    /\ Len(handlers) < MaxHandlers
    /\ LET config == load_config(file)
       IN  /\ ~listed(config.stocks, upper(ticker[1]))
           /\ handlers' = Append(handlers, [ticker |-> upper(ticker[1]), config |-> config,
                                            pc |-> "send"])
    /\ UNCHANGED <<now, botVars, cacheVars, probeVars, acked, restart, rejected, coVars>>

\* ctx.send("Checking ...") returned: the handler's wake-up is queued
SendReturns(h) ==
    /\ handlers[h].pc = "send"
    /\ handlers' = [handlers EXCEPT ![h].pc = "due"]
    /\ ready' = Append(ready, Wakeup(h))
    /\ UNCHANGED <<now, file, tasks, scheduled_task, bot_ready, sends, cycle, used,
                   cacheVars, probeVars, acked, restart, rejected, coVars>>

\* the rest of addstock: get_stock_data, then append, save and report
StepAddstock(h, fetched) ==
    /\ ready # << >> /\ Head(ready) = Wakeup(h)
    /\ ready' = Tail(ready)
    /\ LET r == get_cached_stock(_cache, handlers[h].ticker, now, fetched, 0)
       IN  /\ _cache' = r.cache
           /\ IF r.data = None
              THEN UNCHANGED <<file, acked>>
              ELSE /\ file' = save_config(append_to_loaded(handlers[h].config,
                                                           handlers[h].ticker))
                   /\ acked' = acked \cup {handlers[h].ticker}
    /\ handlers' = [handlers EXCEPT ![h] = [ticker |-> @.ticker, config |-> defaults,
                                             pc |-> "done"]]
    /\ UNCHANGED <<now, tasks, scheduled_task, bot_ready, sends, cycle, used,
                   lookup, probeVars, restart, rejected, coVars>>

\* !removestock [ticker]
removestock(ticker) ==
    /\ ticker # None
    /\ LET config == load_config(file)
       IN  /\ acked' = acked \ {upper(ticker[1])}
           /\ IF listed(config.stocks, upper(ticker[1]))
              THEN file' = save_config([config EXCEPT
                                          !.stocks = remove(@, upper(ticker[1]))])
              ELSE file' = file
    /\ UNCHANGED <<now, tasks, scheduled_task, ready, bot_ready, sends, cycle, used,
                   cacheVars, probeVars, handlers, restart, rejected, coVars>>

\* the commands start on any of the files, with nothing else under way
CommandsIdle ==
    /\ now = FridayEvening
    /\ file \in InitialFiles
    /\ tasks = << >>
    /\ scheduled_task = None
    /\ ready = << >>
    /\ bot_ready = "no"
    /\ sends = << >>
    /\ cycle = None
    /\ used = [cycles |-> 0]
    /\ _cache = << >>
    /\ lookup = None
    /\ ret = None
    /\ handlers = << >>
    /\ acked = {}
    /\ restart = None
    /\ rejected = {}
    /\ callers = << >>
    /\ running = None

\* what _fetch_stock_data_raw may answer to the handler h
HandlerAnswers(h) == { None, Some(Quote(handlers[h].ticker, Min(Prices))) }

(* The restart of the loop by setinterval among the other commands: every   *)
(* setinterval argument, and one addstock at a time for one symbol.          *)
MaxStale == 1
RestartStockArgs == { Some(TickerB) }

InitCommands == CommandsIdle /\ arg = [fn |-> "setinterval"]

NextCommands ==
    \/ BotReady
    \/ on_ready
    \/ \E preset \in SetIntervalArgs : setinterval(preset)
    \/ \E id \in ChannelIds : setchannel(id)
    \/ \E ticker \in RestartStockArgs : Len(handlers) < MaxStale /\ addstock(ticker)
    \/ \E ticker \in RestartStockArgs : removestock(ticker)
    \/ \E h \in 1 .. Len(handlers) : SendReturns(h)
    \/ \E h \in 1 .. Len(handlers) : \E fetched \in HandlerAnswers(h) : StepAddstock(h, fetched)
    \/ \E t \in 1 .. Len(tasks) : StepCancelled(t)
    \/ \E t \in 1 .. Len(tasks) : StepStart(t)

SpecCommands == InitCommands /\ [][NextCommands]_vars

(* The watch-list under concurrent addstock and removestock handlers.       *)
InitWatchList == CommandsIdle /\ arg = [fn |-> "addstock"]

NextWatchList ==
    \/ \E ticker \in StockArgs : addstock(ticker)
    \/ \E ticker \in StockArgs : removestock(ticker)
    \/ \E id \in ChannelIds : setchannel(id)
    \/ \E h \in 1 .. Len(handlers) : SendReturns(h)
    \/ \E h \in 1 .. Len(handlers) : \E fetched \in HandlerAnswers(h) : StepAddstock(h, fetched)

SpecWatchList == InitWatchList /\ [][NextWatchList]_vars

\* the persisted watch-list
Persisted == load_config(file).stocks
PersistedNext == load_config(file').stocks

(* C14: after setinterval with a valid preset saved the new interval and     *)
(* restarted the loop, the first wake time the restarted loop computes is    *)
(* aligned to the new interval's minutes, whatever other command handlers    *)
(* run in between.                                                            *)
C14_RestartUsesNewInterval ==
    [][\A t \in TaskIds :
          (/\ restart # None /\ restart[1].task = t
           /\ tasks[t].pc \in {"created", "wait_ready"}
           /\ tasks'[t].pc = "sleep")
          => /\ tasks'[t].interval_minutes = restart[1].minutes
             /\ tasks'[t].wake = get_next_interval_time(restart[1].minutes, now)]_vars

\* the five preset names, and an argument that spells one of them in any case
PresetNames ==
    { <<"1", "5", "m">>, <<"3", "0", "m">>, <<"1", "h">>, <<"2", "h">>, <<"4", "h">> }
NamesPreset(a, name) ==
    /\ Len(a) = Len(name)
    /\ \A i \in 1 .. Len(a) :
          a[i] = name[i] \/ <<a[i], name[i]>> \in { <<"M", "m">>, <<"H", "h">> }
MinutesNamed(name) ==
    CASE name = <<"1", "5", "m">> -> 15
      [] name = <<"3", "0", "m">> -> 30
      [] name = <<"1", "h">> -> 60
      [] name = <<"2", "h">> -> 120
      [] name = <<"4", "h">> -> 240

(* C15: setinterval turns down a missing argument and an argument that is    *)
(* not a preset name (in any letter case), leaving the persisted             *)
(* configuration and the scheduler as they were; an accepted argument names  *)
(* a preset and saves its minutes; so the persisted interval, and the        *)
(* interval a scheduler loop has read, is always 15, 30, 60, 120 or 240.     *)
C15_OnlyPresetIntervals ==
    [][/\ rejected' # rejected =>
             /\ file' = file
             /\ tasks' = tasks /\ scheduled_task' = scheduled_task /\ ready' = ready
       /\ \A a \in rejected' :
             a = None \/ \A name \in PresetNames : ~NamesPreset(a[1], name)
       /\ (restart' # restart /\ restart' # None) =>
             \E name \in PresetNames :
                 /\ NamesPreset(restart'[1].preset, name)
                 /\ restart'[1].minutes = MinutesNamed(name)
                 /\ load_config(file').interval_minutes = MinutesNamed(name)
       /\ load_config(file').interval_minutes \in {15, 30, 60, 120, 240}
       /\ \A t \in 1 .. Len(tasks') :
             tasks'[t].pc = "sleep" => tasks'[t].interval_minutes \in {15, 30, 60, 120, 240}
      ]_vars

\* both kinds of bad argument were turned down, and a loop restarted by
\* "1H" sleeps on the 60-minute interval
C15_Witness ==
    /\ rejected = { None, Some(<<"5", "m">>) }
    /\ load_config(file).interval_minutes = 60
    /\ \E t \in TaskIds :
          /\ scheduled_task = Some(t)
          /\ tasks[t].pc = "sleep" /\ tasks[t].interval_minutes = 60

\* the position of a listed symbol
Position(stocks, ticker) == Min({ i \in 1 .. Len(stocks) : stocks[i] = ticker })

(* C19: from a watch-list without duplicates, whatever addstock and          *)
(* removestock commands run and however they interleave, every persisted     *)
(* watch-list holds no symbol twice and only uppercase symbols, and two      *)
(* symbols that stay listed keep their relative order.                       *)
C19_WatchListOrdered ==
    [][/\ \A i, j \in 1 .. Len(PersistedNext) :
             PersistedNext[i] = PersistedNext[j] => i = j
       /\ \A i \in 1 .. Len(PersistedNext) : IsUpperCase(PersistedNext[i])
       /\ \A i, j \in 1 .. Len(Persisted) :
             (/\ i < j
              /\ listed(PersistedNext, Persisted[i])
              /\ listed(PersistedNext, Persisted[j]))
             => Position(PersistedNext, Persisted[i]) < Position(PersistedNext, Persisted[j])
      ]_vars

(* C20: a ticker whose addition addstock reported stays in the persisted     *)
(* watch-list until a later removestock of that ticker, in every             *)
(* interleaving of the command handlers.                                     *)
C20_AckedStaysListed ==
    \A ticker \in acked : listed(Persisted, ticker)

----------------------------------------------------------------------------
(* Concurrent lookups. The scheduler's cycle and the command handlers are  *)
(* coroutines of one event loop: a coroutine keeps the thread from one     *)
(* await to the next. get_cached_stock is followed statement by statement: *)
(* the freshness test, the request, the store. Neither get_cached_stock    *)
(* nor _fetch_stock_data_raw nor the loop of fetch_all_stocks holds an     *)
(* await: the request is a blocking call.                                  *)

MaxTicks == 1

\* the coroutines, each with the tickers it looks up between two of its awaits
Callers ==
    << [name |-> "cycle", tickers |-> <<TickerAB, TickerC>>],
       [name |-> "check", tickers |-> << <<"a", "b">> >>],
       [name |-> "addstock", tickers |-> <<TickerAB>>],
       [name |-> "compare", tickers |-> <<TickerC, <<"a", "b">> >>] >>

\* a request that is awaited: the coroutine would be suspended while it is out
suspends_at_fetch(pc) == pc \in {"await", "fetch", "done"}

\* where a coroutine is suspended: at the await before its lookups (await)
\* and at the await after them (done)
suspends_at(pc) == pc \in {"await", "done"}

\* the coroutine c may take its next step: it holds the thread, or nobody
\* does and the await it is suspended at has completed
Holds(c) == running = Some(c) \/ (running = None /\ suspends_at(callers[c].pc))

\* who holds the thread once c has reached pc
Release(c, pc) == IF suspends_at(pc) THEN None ELSE Some(c)

\* the loop of fetch_all_stocks / compare: on to the next ticker, or out
next_ticker(caller) ==
    IF caller.i < Len(caller.tickers)
    THEN [caller EXCEPT !.pc = "check", !.i = @ + 1]
    ELSE [caller EXCEPT !.pc = "done"]

LookupKey(c) == cache_key(callers[c].tickers[callers[c].i])

InitLookups ==
    /\ file = [kind |-> "missing"]
    /\ tasks = << >>
    /\ scheduled_task = None
    /\ ready = << >>
    /\ bot_ready = "yes"
    /\ sends = << >>
    /\ cycle = None
    /\ used = [cycles |-> 0]
    /\ handlers = << >>
    /\ acked = {}
    /\ restart = None
    /\ rejected = {}
    /\ callers = [c \in 1 .. Len(Callers) |->
                    [name |-> Callers[c].name, tickers |-> Callers[c].tickers,
                     pc |-> "await", i |-> 1, checked |-> 0, fetched |-> None,
                     served |-> ""]]
    /\ running = None
    /\ now = 0
    /\ _cache = << >>
    /\ lookup = None
    /\ arg = [fn |-> "lookups", ticks |-> 0]
    /\ ret = None

\* the await before the lookups completed: the coroutine runs on
Resume(c) ==
    /\ Holds(c)
    /\ callers[c].pc = "await"
    /\ callers' = [callers EXCEPT ![c].pc = "check", ![c].i = 1]
    /\ running' = Release(c, "check")
    /\ UNCHANGED <<now, botVars, cacheVars, probeVars, cmdVars>>

\* if ticker in _cache and time.time() - ts < CACHE_TTL: return data
CacheCheck(c) ==
    /\ Holds(c)
    /\ callers[c].pc = "check"
    /\ LET after == IF is_fresh(_cache, LookupKey(c), now)
                    THEN next_ticker([callers[c] EXCEPT !.served = "cache"])
                    ELSE [callers[c] EXCEPT !.pc = "fetch", !.checked = now]
       IN  /\ callers' = [callers EXCEPT ![c] = after]
           /\ running' = Release(c, after.pc)
    /\ UNCHANGED <<now, botVars, cacheVars, probeVars, cmdVars>>

\* data = _fetch_stock_data_raw(ticker)
CacheFetch(c, fetched, took) ==
    /\ Holds(c)
    /\ callers[c].pc = "fetch"
    /\ now' = now + took
    /\ callers' = [callers EXCEPT ![c].pc = "store", ![c].fetched = fetched,
                                  ![c].served = "request"]
    /\ running' = Release(c, "store")
    /\ UNCHANGED <<botVars, cacheVars, probeVars, cmdVars>>

\* if data: _cache[ticker] = (data, time.time()); return data
CacheStore(c) ==
    /\ Holds(c)
    /\ callers[c].pc = "store"
    /\ _cache' = store_if_data(_cache, LookupKey(c), callers[c].fetched, now)
    /\ LET after == next_ticker([callers[c] EXCEPT !.fetched = None])
       IN  /\ callers' = [callers EXCEPT ![c] = after]
           /\ running' = Release(c, after.pc)
    /\ UNCHANGED <<now, botVars, lookup, probeVars, cmdVars>>

\* time passes while no coroutine holds the thread
Tick(d) ==
    /\ running = None
    /\ arg.ticks < MaxTicks
    /\ \E c \in 1 .. Len(callers) : callers[c].pc # "done"
    /\ now' = now + d
    /\ arg' = [arg EXCEPT !.ticks = @ + 1]
    /\ UNCHANGED <<botVars, cacheVars, ret, cmdVars, coVars>>

NextLookups ==
    \/ \E c \in 1 .. Len(callers) : Resume(c)
    \/ \E c \in 1 .. Len(callers) : CacheCheck(c)
    \/ \E c \in 1 .. Len(callers) :
          \E fetched \in {None, Some(Quote(LookupKey(c), Min(Prices)))}, took \in BlockingSeconds :
              CacheFetch(c, fetched, took)
    \/ \E c \in 1 .. Len(callers) : CacheStore(c)
    \/ \E d \in Gaps : Tick(d)

SpecLookups == InitLookups /\ [][NextLookups]_vars

\* the coroutine c is between the freshness test it failed and its store
InLookup(c) == callers[c].pc \in {"fetch", "store"}

(* C17: the check-fetch-store sequence of get_cached_stock for a key         *)
(* excludes every other read or write of that key: no two coroutines are     *)
(* within it for one key, nobody else runs while a coroutine is in a lookup, *)
(* no entry that would have served a coroutine's lookup appears between its  *)
(* miss and its store (so two lookups never both miss and both fetch within  *)
(* one TTL window of a stored entry), and every entry a lookup can see is    *)
(* complete.                                                                  *)
C17_LookupsExclusive ==
    /\ \A c, d \in 1 .. Len(callers) :
          (c # d /\ InLookup(c) /\ InLookup(d)) => LookupKey(c) # LookupKey(d)
    /\ \A c \in 1 .. Len(callers) :
          callers[c].pc \in {"check", "fetch", "store"} => running = Some(c)
    /\ \A c \in 1 .. Len(callers) :
          InLookup(c) =>
              ~(/\ LookupKey(c) \in DOMAIN _cache
                /\ callers[c].checked - _cache[LookupKey(c)].ts < 60)
    /\ \A k \in DOMAIN _cache : _cache[k].data # None /\ _cache[k].ts <= now

\* addstock fetched AB, and check, resumed at the same instant, was served
\* "ab" from the cache
C17_Witness ==
    /\ \E c, d \in 1 .. Len(callers) :
          /\ callers[c].name = "addstock" /\ callers[c].pc = "done"
          /\ callers[c].served = "request"
          /\ callers[d].name = "check" /\ callers[d].pc = "done"
          /\ callers[d].served = "cache"
    /\ TickerAB \in DOMAIN _cache
    /\ _cache[TickerAB].ts = now

(* C21: addstock changes only the stocks member of the persisted             *)
(* configuration: the channel_id and the interval_minutes stored after its   *)
(* save are those stored just before it, also when a setchannel or a         *)
(* setinterval ran between addstock's load and its save.                     *)
C21_AddstockKeepsOtherFields ==
    [][\A h \in 1 .. Len(handlers) :
          (handlers[h].pc = "due" /\ handlers'[h].pc = "done") =>
              /\ load_config(file').channel_id = load_config(file).channel_id
              /\ load_config(file').interval_minutes = load_config(file).interval_minutes
      ]_vars

(* C22: within one loop instance a cycle runs at or after the aligned wake   *)
(* time computed for it, and the wake time computed after the cycle and its  *)
(* 5-second cooldown is strictly later than that cycle's wake time; so one   *)
(* instance runs at most one cycle, and makes at most one send, per aligned  *)
(* boundary.                                                                  *)
C22_OneCyclePerBoundary ==
    [][/\ used'.cycles > used.cycles =>
             /\ cycle'[1].at >= cycle'[1].wake
             /\ cycle # None /\ cycle[1].task = cycle'[1].task
                   => cycle'[1].wake > cycle[1].wake
       /\ \A t \in TaskIds :
             (tasks[t].pc = "cooldown" /\ tasks'[t].pc = "sleep") =>
                 /\ tasks'[t].next_time > tasks[t].next_time
                 /\ now >= tasks[t].wake
       /\ \A i, j \in 1 .. Len(sends') : sends'[i] = sends'[j] => i = j
      ]_vars

\* one instance posted at Friday 19:45 and again at its next boundary
C22_Witness ==
    /\ Len(sends) = 2
    /\ sends[1].task = sends[2].task
    /\ sends[1].wake = At(4, 19, 45, 0)
    /\ sends[2].wake > sends[1].wake
    /\ cycle # None /\ cycle[1].wake = sends[2].wake /\ cycle[1].at >= cycle[1].wake

====
